---- MODULE Spec2Model ----
(***************************************************************************)
(* Model of the folder operations of the R2 file manager (src/index.js):   *)
(* /create-file, /delete-file, /duplicate-folder and /rename-folder, over  *)
(* a bucket of objects.  Object keys are sequences of one-character        *)
(* strings, so that the prefix listing and String.prototype.replace are    *)
(* computed on the text of the keys.  Every storage call (s3.send) either  *)
(* takes effect and resolves, or rejects without effect.  Listings are     *)
(* within one page of ListObjectsV2 (no truncation).                       *)
(***************************************************************************)
EXTENDS Integers, Sequences, FiniteSets, TLC

VARIABLES bucket, pre, req, listData, pc, resp, served

vars == <<bucket, pre, req, listData, pc, resp, served>>

(* ---------------------------- bounds ----------------------------------- *)

\* number of objects in the bucket when the server starts
MaxObjects == 2

\* number of HTTP requests served in one behaviour
MaxRequests == 1

(* ---------------------------- strings ---------------------------------- *)

Slash == <<"/">>

\* the template literal `${folder}/${fileName}`
KeyOf(folder, fileName) == folder \o Slash \o fileName

\* the template literal `${folder}/`
PrefixOf(folder) == folder \o Slash

StartsWith(s, p) == Len(p) <= Len(s) /\ SubSeq(s, 1, Len(p)) = p

Contains(s, c) == \E i \in 1..Len(s) : s[i] = c

\* 1-based position of the first occurrence of pat in str, 0 when there is none
IndexOf(str, pat) ==
    LET hits == {i \in 1..(Len(str) - Len(pat) + 1) :
                    SubSeq(str, i, i + Len(pat) - 1) = pat}
    IN IF hits = {} THEN 0 ELSE CHOOSE i \in hits : \A j \in hits : i <= j

\* GetSubstitution of ECMAScript for a string pattern (no captures): in the
\* replacement text "$$" stands for "$", "$&" for the matched text, "$`" for
\* the text before the match and "$'" for the text after it; any other "$"
\* is literal.
RECURSIVE GetSubstitution(_, _, _, _)
GetSubstitution(matched, str, position, replacement) ==
    IF replacement = <<>> THEN <<>>
    ELSE IF replacement[1] = "$" /\ Len(replacement) >= 2
    THEN LET c    == replacement[2]
             rest == SubSeq(replacement, 3, Len(replacement))
         IN CASE c = "$" -> <<"$">> \o GetSubstitution(matched, str, position, rest)
              [] c = "&" -> matched \o GetSubstitution(matched, str, position, rest)
              [] c = "`" -> SubSeq(str, 1, position - 1)
                              \o GetSubstitution(matched, str, position, rest)
              [] c = "'" -> SubSeq(str, position + Len(matched), Len(str))
                              \o GetSubstitution(matched, str, position, rest)
              [] OTHER   -> <<"$">>
                              \o GetSubstitution(matched, str, position, Tail(replacement))
    ELSE <<replacement[1]>> \o GetSubstitution(matched, str, position, Tail(replacement))

\* the whole-key variant a global replacement would compute
RECURSIVE ReplaceAllOccurrences(_, _, _)
ReplaceAllOccurrences(str, pat, rep) ==
    LET p == IndexOf(str, pat)
    IN IF p = 0 \/ pat = <<>> THEN str
       ELSE SubSeq(str, 1, p - 1) \o rep
              \o ReplaceAllOccurrences(SubSeq(str, p + Len(pat), Len(str)), pat, rep)

\* str.replace(pat, rep) with a string pattern: the first occurrence only
StringReplace(str, pat, rep) ==
    LET p == IndexOf(str, pat)
    IN IF p = 0 THEN str
       ELSE SubSeq(str, 1, p - 1)
              \o GetSubstitution(pat, str, p, rep)
              \o SubSeq(str, p + Len(pat), Len(str))

(* ---------------------------- the object store ------------------------- *)

\* keys of the objects whose key starts with the prefix
ListObjectsV2(b, prefix) == {k \in DOMAIN b : StartsWith(k, prefix)}

PutObject(b, key, body) ==
    [k \in (DOMAIN b) \cup {key} |-> IF k = key THEN body ELSE b[k]]

\* a copy that moves: the source object is gone afterwards
CopyObjectAsMove(b, from, to) ==
    [k \in ((DOMAIN b) \ {from}) \cup {to} |-> IF k = to THEN b[from] ELSE b[k]]

CopyObject(b, from, to) == PutObject(b, to, b[from])

\* a delete that is never sent
DeleteNothing(b, key) == b

DeleteObject(b, key) == [k \in (DOMAIN b) \ {key} |-> b[k]]

\* a bulk delete that carries only one of the keys
DeleteFirstOnly(b, keys) ==
    IF keys = {} THEN b
    ELSE LET first == CHOOSE k \in keys : TRUE
         IN [k \in (DOMAIN b) \ {first} |-> b[k]]

DeleteObjects(b, keys) == [k \in (DOMAIN b) \ keys |-> b[k]]

\* the body of a PutObject request that carries no Body
EmptyBody == "empty"

\* JSON.stringify(content)
JSONStringify(content) == <<"json", content>>

(* ---------------------------- inputs ------------------------------------ *)

\* folder names a request body may carry (non-empty strings)
Folders == {<<"a">>, <<"b">>, <<"a", "/", "a">>, <<"$", "&">>}

FileNames == {<<"f">>, <<"g">>}

Contents == {"x", "y"}

\* keys of the objects the bucket may hold when the server starts
SeedKeys == {KeyOf(<<"a">>, <<"f">>), KeyOf(<<"a", "/", "a">>, <<"f">>),
             KeyOf(<<"b">>, <<"f">>)}

SeedBuckets ==
    UNION {[S -> {JSONStringify(c) : c \in Contents}] :
              S \in {T \in SUBSET SeedKeys : Cardinality(T) <= MaxObjects}}

(* ---------------------------- responses -------------------------------- *)

NoCount == -1

\* res.status(s).send(...): count is the number the message carries, if any
Response(s, n) == [status |-> s, count |-> n]

\* no response sent yet
Pending == Response(0, NoCount)

NoRequest == [op |-> "none", sourceFolder |-> <<>>, targetFolder |-> <<>>]

NoListing == [ok |-> FALSE, Contents |-> {}]

\* a handler without the emptiness test
NeverEmpty(data) == FALSE

\* !listData.Contents || listData.Contents.length === 0
IsEmptyListing(data) == data.Contents = {}

\* item.Key.replace(sourceFolder, targetFolder)
NewKey(key) == StringReplace(key, req.sourceFolder, req.targetFolder)

\* every promise of the fan-out has settled
Settled == \A k \in DOMAIN pc : pc[k] \in {"done", "copyFailed", "deleteFailed"}

\* a call is taken when no earlier call is still running: none was made, or
\* its response is sent and every promise it issued has settled
Idle ==
    /\ served < MaxRequests
    /\ req.op = "none" \/ (Settled /\ resp # Pending)

\* a fan-out awaited with Promise.any: one resolved promise is enough
PromiseAnyResolved(p) == \E k \in DOMAIN p : p[k] = "done"

\* Promise.all resolves when every promise has resolved
PromiseAllResolved(p) == \A k \in DOMAIN p : p[k] = "done"

\* the response after one promise of the fan-out resolved: the awaited
\* Promise.all resolves once all have, and the handler then sends `ok`
AfterResolve(p, ok) ==
    IF resp = Pending /\ PromiseAllResolved(p) THEN ok ELSE resp

\* a rejection that is swallowed: no response is sent for it
RejectionSwallowed == resp

\* the response after one promise rejected: the first rejection rejects the
\* awaited Promise.all and the catch block sends 500
AfterReject == IF resp = Pending THEN Response(500, NoCount) ELSE resp

(* ---------------------------- initial state ---------------------------- *)

Init ==
    /\ bucket \in SeedBuckets
    /\ pre = bucket
    /\ req = NoRequest
    /\ listData = NoListing
    /\ pc = <<>>
    /\ resp = Pending
    /\ served = 0

(* ---------------------------- /create-file ------------------------------ *)

CreateFile(folder, fileName, content) ==
    /\ Idle
    /\ req' = [op |-> "create", sourceFolder |-> folder, targetFolder |-> <<>>]
    /\ served' = served + 1
    /\ pre' = bucket
    /\ listData' = NoListing
    /\ pc' = <<>>
    /\ \/ /\ bucket' = PutObject(bucket, KeyOf(folder, fileName), JSONStringify(content))
          /\ resp' = Response(201, NoCount)
       \/ /\ bucket' = bucket
          /\ resp' = Response(500, NoCount)

(* ---------------------------- /delete-file ------------------------------ *)

\* fileName === "*": list the prefix, then one bulk delete
DeleteAll(folder) ==
    /\ Idle
    /\ req' = [op |-> "deleteAll", sourceFolder |-> folder, targetFolder |-> <<>>]
    /\ served' = served + 1
    /\ pre' = bucket
    /\ pc' = <<>>
    /\ \/ /\ listData' = NoListing
          /\ bucket' = bucket
          /\ resp' = Response(500, NoCount)
       \/ /\ listData' = [ok |-> TRUE, Contents |-> ListObjectsV2(bucket, PrefixOf(folder))]
          /\ IF IsEmptyListing(listData')
             THEN /\ bucket' = bucket
                  /\ resp' = Response(404, NoCount)
             ELSE \/ /\ bucket' = DeleteObjects(bucket, listData'.Contents)
                     /\ resp' = Response(200, Cardinality(listData'.Contents))
                  \/ /\ bucket' = bucket
                     /\ resp' = Response(500, NoCount)

\* any other fileName: HeadObject, then DeleteObject
DeleteOne(folder, fileName) ==
    /\ Idle
    /\ req' = [op |-> "deleteOne", sourceFolder |-> folder, targetFolder |-> <<>>]
    /\ served' = served + 1
    /\ pre' = bucket
    /\ listData' = NoListing
    /\ pc' = <<>>
    /\ IF KeyOf(folder, fileName) \notin DOMAIN bucket
       THEN /\ bucket' = bucket
            /\ resp' \in {Response(404, NoCount), Response(500, NoCount)}
       ELSE \/ /\ bucket' = DeleteObject(bucket, KeyOf(folder, fileName))
               /\ resp' = Response(200, NoCount)
            \/ /\ bucket' = bucket
               /\ resp' = Response(500, NoCount)

(* ---------------------------- the fan-out handlers --------------------- *)

\* the listing, the 404 answer and the issue of one promise per listed key,
\* common to /duplicate-folder and /rename-folder
StartTransform(op, sourceFolder, targetFolder, ok) ==
    /\ Idle
    /\ req' = [op |-> op, sourceFolder |-> sourceFolder, targetFolder |-> targetFolder]
    /\ served' = served + 1
    /\ pre' = bucket
    /\ bucket' = bucket
    /\ \/ /\ listData' = NoListing
          /\ pc' = <<>>
          /\ resp' = Response(500, NoCount)
       \/ /\ listData' = [ok |-> TRUE,
                          Contents |-> ListObjectsV2(bucket, PrefixOf(sourceFolder))]
          /\ IF IsEmptyListing(listData')
             THEN /\ pc' = <<>>
                  /\ resp' = Response(404, NoCount)
             ELSE /\ pc' = [k \in listData'.Contents |-> "copy"]
                  /\ resp' = IF listData'.Contents = {} THEN ok ELSE Pending

DuplicateSuccess == Response(201, NoCount)

RenameSuccess == Response(200, NoCount)

DuplicateFolder(sourceFolder, targetFolder) ==
    StartTransform("duplicate", sourceFolder, targetFolder, DuplicateSuccess)

\* s3.send(new CopyObjectCommand({CopySource: item.Key, Key: newKey})) resolves
CopyResolve(k) ==
    /\ req.op = "duplicate"
    /\ k \in DOMAIN pc
    /\ pc[k] = "copy"
    /\ k \in DOMAIN bucket
    /\ bucket' = CopyObject(bucket, k, NewKey(k))
    /\ pc' = [pc EXCEPT ![k] = "done"]
    /\ resp' = AfterResolve(pc', DuplicateSuccess)
    /\ UNCHANGED <<pre, req, listData, served>>

CopyReject(k) ==
    /\ req.op = "duplicate"
    /\ k \in DOMAIN pc
    /\ pc[k] = "copy"
    /\ pc' = [pc EXCEPT ![k] = "copyFailed"]
    /\ resp' = AfterReject
    /\ UNCHANGED <<bucket, pre, req, listData, served>>

RenameFolder(sourceFolder, targetFolder) ==
    StartTransform("rename", sourceFolder, targetFolder, RenameSuccess)

\* the object written by new PutObjectCommand({CopySource: ..., Key: newKey}):
\* PutObject has no CopySource member and the request has no Body
RenamePutBody(b, k) == EmptyBody

\* s3.send(copyCommand) of the rename resolves; the delete is issued next
PutResolve(k) ==
    /\ req.op = "rename"
    /\ k \in DOMAIN pc
    /\ pc[k] = "copy"
    /\ bucket' = PutObject(bucket, NewKey(k), RenamePutBody(bucket, k))
    /\ pc' = [pc EXCEPT ![k] = "delete"]
    /\ UNCHANGED <<pre, req, listData, resp, served>>

PutReject(k) ==
    /\ req.op = "rename"
    /\ k \in DOMAIN pc
    /\ pc[k] = "copy"
    /\ pc' = [pc EXCEPT ![k] = "copyFailed"]
    /\ resp' = AfterReject
    /\ UNCHANGED <<bucket, pre, req, listData, served>>

\* s3.send(deleteCommand) resolves
DeleteResolve(k) ==
    /\ req.op = "rename"
    /\ k \in DOMAIN pc
    /\ pc[k] = "delete"
    /\ bucket' = DeleteObject(bucket, k)
    /\ pc' = [pc EXCEPT ![k] = "done"]
    /\ resp' = AfterResolve(pc', RenameSuccess)
    /\ UNCHANGED <<pre, req, listData, served>>

DeleteReject(k) ==
    /\ req.op = "rename"
    /\ k \in DOMAIN pc
    /\ pc[k] = "delete"
    /\ pc' = [pc EXCEPT ![k] = "deleteFailed"]
    /\ resp' = AfterReject
    /\ UNCHANGED <<bucket, pre, req, listData, served>>

(* ---------------------------- specification ---------------------------- *)

Next ==
    \/ \E folder \in Folders, fileName \in FileNames, content \in Contents :
          CreateFile(folder, fileName, content)
    \/ \E folder \in Folders : DeleteAll(folder)
    \/ \E folder \in Folders, fileName \in FileNames : DeleteOne(folder, fileName)
    \/ \E s \in Folders, t \in Folders : DuplicateFolder(s, t)
    \/ \E s \in Folders, t \in Folders : RenameFolder(s, t)
    \/ \E k \in DOMAIN pc : CopyResolve(k)
    \/ \E k \in DOMAIN pc : CopyReject(k)
    \/ \E k \in DOMAIN pc : PutResolve(k)
    \/ \E k \in DOMAIN pc : PutReject(k)
    \/ \E k \in DOMAIN pc : DeleteResolve(k)
    \/ \E k \in DOMAIN pc : DeleteReject(k)

Spec == Init /\ [][Next]_vars

(* ---------------------------- the claims -------------------------------- *)

\* listing of sourceFolder + "/" in bucket b
SourceListing(b) == ListObjectsV2(b, PrefixOf(req.sourceFolder))

\* listing of targetFolder + "/" in bucket b
TargetListing(b) == ListObjectsV2(b, PrefixOf(req.targetFolder))

\* the part of a listed key that follows the source folder name at its head
Suffix(k) == SubSeq(k, Len(req.sourceFolder) + 1, Len(k))

EndsWith(s, t) == Len(t) <= Len(s) /\ SubSeq(s, Len(s) - Len(t) + 1, Len(s)) = t

Transforming == req.op \in {"duplicate", "rename"}

DuplicateSucceeded == req.op = "duplicate" /\ resp = DuplicateSuccess

RenameSucceeded == req.op = "rename" /\ resp = RenameSuccess

\* the target folder was empty before the call, does not lie under the source
\* folder and carries no "$" replacement pattern
FreshTarget ==
    /\ TargetListing(pre) = {}
    /\ ~StartsWith(PrefixOf(req.targetFolder), PrefixOf(req.sourceFolder))
    /\ ~Contains(req.targetFolder, "$")

\* C1 as stated: whenever /duplicate-folder answers with success, for any
\* target folder name, the target prefix lists exactly N objects (N the
\* number of objects of the source folder) and the source prefix lists the
\* same keys as before the call.
C1_Original ==
    DuplicateSucceeded =>
        /\ Cardinality(TargetListing(bucket)) = Cardinality(SourceListing(pre))
        /\ SourceListing(bucket) = SourceListing(pre)

\* C1 amended: the same, when the target prefix held no object before the
\* call, the target folder is not nested under the source folder and its name
\* holds no "$".
C1_DuplicateIntoFreshTarget ==
    (DuplicateSucceeded /\ FreshTarget) =>
        /\ Cardinality(TargetListing(bucket)) = Cardinality(SourceListing(pre))
        /\ SourceListing(bucket) = SourceListing(pre)

C1_Witness ==
    /\ DuplicateSucceeded
    /\ FreshTarget
    /\ Cardinality(SourceListing(pre)) >= 2
    /\ Cardinality(TargetListing(bucket)) = 2

\* C2 as stated: whenever /rename-folder answers with success, for any target
\* folder name, the target prefix lists N objects and the source prefix lists
\* none.
C2_Original ==
    RenameSucceeded =>
        /\ Cardinality(TargetListing(bucket)) = Cardinality(SourceListing(pre))
        /\ SourceListing(bucket) = {}

\* C2 amended: the same, when the target prefix held no object before the
\* call, the target folder is not nested under the source folder and its name
\* holds no "$".
C2_RenameIntoFreshTarget ==
    (RenameSucceeded /\ FreshTarget) =>
        /\ Cardinality(TargetListing(bucket)) = Cardinality(SourceListing(pre))
        /\ SourceListing(bucket) = {}

C2_Witness ==
    /\ RenameSucceeded
    /\ FreshTarget
    /\ Cardinality(SourceListing(pre)) >= 2
    /\ Cardinality(TargetListing(bucket)) = 2
    /\ SourceListing(bucket) = {}

\* C3: when the listing of the source prefix returns no objects, rename and
\* duplicate answer 404, issue no copy, put or delete, and leave the bucket
\* as it was, so nothing appears under the target prefix.
C3_EmptySourceNotFound ==
    (Transforming /\ listData.ok /\ listData.Contents = {}) =>
        /\ resp = Response(404, NoCount)
        /\ DOMAIN pc = {}
        /\ bucket = pre
        /\ TargetListing(bucket) = TargetListing(pre)

C3_Witness ==
    /\ Transforming
    /\ listData.ok
    /\ SourceListing(pre) = {}
    /\ resp.status = 404
    /\ DOMAIN bucket # {}

\* C4: the new key replaces only the first occurrence of the source folder
\* name (the one at the head of the key): the rest of the old key is kept
\* verbatim, later occurrences included, and with a "$"-free target name the
\* new key is the target name followed by that rest; "a/sub/a/file" renamed
\* from "a" to "b" is "b/sub/a/file".
C4_FirstOccurrenceOnly ==
    /\ Transforming =>
          \A k \in DOMAIN pc :
              /\ EndsWith(NewKey(k), Suffix(k))
              /\ ~Contains(req.targetFolder, "$")
                    => NewKey(k) = req.targetFolder \o Suffix(k)
    /\ StringReplace(<<"a", "/", "s", "u", "b", "/", "a", "/", "f", "i", "l", "e">>,
                     <<"a">>, <<"b">>)
          = <<"b", "/", "s", "u", "b", "/", "a", "/", "f", "i", "l", "e">>

C4_Witness ==
    /\ RenameSucceeded
    /\ req.sourceFolder = <<"a">>
    /\ req.targetFolder = <<"b">>
    /\ <<"a", "/", "a", "/", "f">> \in listData.Contents
    /\ <<"b", "/", "a", "/", "f">> \in DOMAIN bucket
    /\ <<"b", "/", "b", "/", "f">> \notin DOMAIN bucket

C6_Original ==
    (req.op = "rename" /\ \E k \in DOMAIN pc : pc[k] = "copyFailed") =>
        /\ resp = Response(500, NoCount)
        /\ \A k \in DOMAIN pc :
              pc[k] = "done" => (NewKey(k) \in DOMAIN bucket /\ k \notin DOMAIN bucket)

\* C7 as stated: on success the result of duplicate is the count of objects
\* copied, equal to the number of keys in the listing of the source prefix.
C7_Original ==
    DuplicateSucceeded => resp.count = Cardinality(listData.Contents)

\* C7 amended: on success the response of duplicate carries no count; one
\* copy was issued for each key of the listing and every one of them has
\* completed.
C7_AllCopiesDoneNoCount ==
    DuplicateSucceeded =>
        /\ resp.count = NoCount
        /\ DOMAIN pc = listData.Contents
        /\ Cardinality({k \in DOMAIN pc : pc[k] = "done"}) = Cardinality(listData.Contents)
        /\ \A k \in listData.Contents : NewKey(k) \in DOMAIN bucket

C7_Witness ==
    /\ DuplicateSucceeded
    /\ Cardinality(listData.Contents) = 2
    /\ Cardinality({k \in DOMAIN pc : pc[k] = "done"}) = 2

\* C8 as stated: after a successful /rename-folder the object stored at each
\* new key has the content the object at the corresponding old key had
\* before the call.
C8_Original ==
    RenameSucceeded =>
        \A k \in listData.Contents :
            NewKey(k) \in DOMAIN bucket /\ bucket[NewKey(k)] = pre[k]

\* C9 as stated: duplicate reports success only if every copy succeeded; if
\* a copy fails it reports an error, the completed copies stay at their
\* target keys and the source objects are untouched.
C9_Original ==
    req.op = "duplicate" =>
        /\ resp = DuplicateSuccess => \A k \in DOMAIN pc : pc[k] = "done"
        /\ (\E k \in DOMAIN pc : pc[k] = "copyFailed") =>
              /\ resp = Response(500, NoCount)
              /\ \A k \in DOMAIN pc : pc[k] = "done" => NewKey(k) \in DOMAIN bucket
              /\ \A k \in listData.Contents : k \in DOMAIN bucket /\ bucket[k] = pre[k]

\* the keys the call writes
TargetKeys == {NewKey(k) : k \in DOMAIN pc}

\* C9 amended: the same, the untouched source objects being those whose key
\* is not itself a target key of the call (every source key stays present).
C9_NoRollbackOnCopyFailure ==
    req.op = "duplicate" =>
        /\ resp = DuplicateSuccess => \A k \in DOMAIN pc : pc[k] = "done"
        /\ (\E k \in DOMAIN pc : pc[k] = "copyFailed") =>
              /\ resp = Response(500, NoCount)
              /\ \A k \in DOMAIN pc : pc[k] = "done" => NewKey(k) \in DOMAIN bucket
              /\ \A k \in listData.Contents :
                    /\ k \in DOMAIN bucket
                    /\ k \notin TargetKeys => bucket[k] = pre[k]

C9_Witness ==
    /\ req.op = "duplicate"
    /\ resp = Response(500, NoCount)
    /\ \E k \in DOMAIN pc : pc[k] = "copyFailed"
    /\ \E k \in DOMAIN pc :
          /\ pc[k] = "done"
          /\ NewKey(k) \notin DOMAIN pre
          /\ NewKey(k) \in DOMAIN bucket
          /\ bucket[NewKey(k)] = pre[k]

\* C10 as stated: in every state of a /rename-folder call, for any target
\* folder name, every object of the source listing is stored under its old
\* key or under its new key.
C10_Original ==
    req.op = "rename" =>
        \A k \in listData.Contents : k \in DOMAIN bucket \/ NewKey(k) \in DOMAIN bucket

====
